---- MODULE Spec2Model ----
(***************************************************************************)
(* A model of app.py: the GATT object tree (Application, Service,          *)
(* Characteristic, Descriptor) served over D-Bus, the pairing Agent whose  *)
(* handlers run on the same GLib main loop, the Advertisement and its      *)
(* mutators, and main() from its first statement to its last.              *)
(*                                                                         *)
(* Four specifications share the variables: Spec (the entities' handlers   *)
(* on an idle loop), SpecAgent (the loop serving the agent's and the       *)
(* entities' calls off one connection), SpecAd (an Advertisement under     *)
(* construction) and SpecMain (the whole process).                         *)
(*                                                                         *)
(* Python strings are TLA+ strings, Python lists are sequences, Python     *)
(* dicts are functions whose domain is the key set, and an object is a     *)
(* record of its attributes plus "cls", the name of its concrete class.    *)
(* A back-reference (Characteristic.service, Descriptor.chrc) is kept as   *)
(* the path of the object referred to, which is all the code reads of it.  *)
(* A byte sequence (a value read or written, D-Bus type "ay") is the       *)
(* string of its bytes' characters: b"Test" and [84, 101, 115, 116] are    *)
(* both "Test", and the empty list is "".                                  *)
(***************************************************************************)
EXTENDS Integers, Sequences, FiniteSets, TLC

VARIABLES
    services,          \* Application.services: the list of Service objects
    reply,             \* what the last completed D-Bus method call returned
    emitted,           \* the PropertiesChanged signals emitted so far
    inbox,             \* method calls of the host stack not yet dispatched
    waiting,           \* the Agent handler blocked in ask(), or NotWaiting
    trusted,           \* Device1.Trusted of each device, as bluez holds it
    exit_on_release,   \* Agent.exit_on_release
    mainloop,          \* the GLib main loop: "none", "created", "running" or "quit"
    ad,                \* the Advertisement object, or NoObject before it is made
    assigned,          \* the optional attributes of ad that were assigned so far
    pc,                \* the statement of main() that runs next
    host               \* what the host stack holds of this process's requests

vars ==
    <<services, reply, emitted, inbox, waiting, trusted, exit_on_release, mainloop,
      ad, assigned, pc, host>>

gattVars == <<services, reply, emitted>>

agentVars == <<inbox, waiting, trusted, exit_on_release, mainloop>>

----------------------------------------------------------------------------
(* Module-level constants of app.py *)

GATT_SERVICE_IFACE == "org.bluez.GattService1"

GATT_CHRC_IFACE == "org.bluez.GattCharacteristic1"

GATT_DESC_IFACE == "org.bluez.GattDescriptor1"

DBUS_PROP_IFACE == "org.freedesktop.DBus.Properties"

LE_ADVERTISEMENT_IFACE == "org.bluez.LEAdvertisement1"

Service_PATH_BASE == "/org/bluez/example/service"

TEST_SVC_UUID == "12634d89-d598-4874-8e86-7d042ee07ba7"

TestCharacteristic_UUID == "12345678-1234-5678-1234-56789abcdef1"

TestDescriptor_UUID == "12345678-1234-5678-1234-56789abcdef2"

CUD_UUID == "2901"

TestEncryptCharacteristic_UUID == "12345678-1234-5678-1234-56789abcdef3"

TestEncryptDescriptor_UUID == "12345678-1234-5678-1234-56789abcdef4"

TestSecureCharacteristic_UUID == "12345678-1234-5678-1234-56789abcdef5"

TestSecureDescriptor_UUID == "12345678-1234-5678-1234-56789abcdef6"

\* array.array("B", b"This is a characteristic for testing").tolist()
CUD_InitialValue == "This is a characteristic for testing"

\* array.array("B", b"This is here it s1")
TestDescriptor_StaticValue == "This is here it s1"

\* [dbus.Byte("T"), dbus.Byte("e"), dbus.Byte("s"), dbus.Byte("t")]
TestEncryptDescriptor_StaticValue == "Test"

\* the same literal in TestSecureDescriptor.ReadValue
TestSecureDescriptor_StaticValue == "Test"

\* The index Application.__init__ gives its one service
VivaldiServiceIndex == 2

None == "None"

\* x in list
InList(x, list) == \E i \in 1..Len(list) : list[i] = x

----------------------------------------------------------------------------
(* Constructors.  Each returns the object as it is when __init__ returns.  *)

\* Descriptor.__init__ with the path built from the service's path instead
\* of the characteristic's
Descriptor_init_ServicePath(index, uuid, flags, characteristic) ==
    [path  |-> characteristic.service \o "/desc" \o ToString(index),
     uuid  |-> uuid,
     flags |-> flags,
     chrc  |-> characteristic.path]

Descriptor_init(index, uuid, flags, characteristic) ==
    [path  |-> characteristic.path \o "/desc" \o ToString(index),
     uuid  |-> uuid,
     flags |-> flags,
     chrc  |-> characteristic.path]

TestDescriptor_init(index, characteristic) ==
    [cls |-> "TestDescriptor"]
    @@ Descriptor_init(index, TestDescriptor_UUID, <<"read", "write">>, characteristic)

CharacteristicUserDescriptionDescriptor_init(index, characteristic) ==
    [cls      |-> "CharacteristicUserDescriptionDescriptor",
     writable |-> InList("writable-auxiliaries", characteristic.flags),
     value    |-> CUD_InitialValue]
    @@ Descriptor_init(index, CUD_UUID, <<"read", "write">>, characteristic)

TestEncryptDescriptor_init(index, characteristic) ==
    [cls |-> "TestEncryptDescriptor"]
    @@ Descriptor_init(index, TestEncryptDescriptor_UUID,
                       <<"encrypt-read", "encrypt-write">>, characteristic)

TestSecureDescriptor_init(index, characteristic) ==
    [cls |-> "TestSecureDescriptor"]
    @@ Descriptor_init(index, TestSecureDescriptor_UUID,
                       <<"secure-read", "secure-write">>, characteristic)

Characteristic_init(index, uuid, flags, service) ==
    [path        |-> service.path \o "/char" \o ToString(index),
     uuid        |-> uuid,
     service     |-> service.path,
     flags       |-> flags,
     descriptors |-> <<>>]

\* Characteristic.add_descriptor
add_descriptor(self, descriptor) ==
    [self EXCEPT !.descriptors = Append(@, descriptor)]

TestCharacteristic_init(index, service) ==
    LET base == [cls |-> "TestCharacteristic", value |-> ""]
                @@ Characteristic_init(index, TestCharacteristic_UUID,
                       <<"read", "write", "writable-auxiliaries">>, service)
        one  == add_descriptor(base, TestDescriptor_init(0, base))
    IN  add_descriptor(one, CharacteristicUserDescriptionDescriptor_init(1, one))

TestEncryptCharacteristic_init(index, service) ==
    LET base == [cls |-> "TestEncryptCharacteristic", value |-> ""]
                @@ Characteristic_init(index, TestEncryptCharacteristic_UUID,
                       <<"encrypt-read", "encrypt-write">>, service)
        one  == add_descriptor(base, TestEncryptDescriptor_init(2, base))
    IN  add_descriptor(one, CharacteristicUserDescriptionDescriptor_init(3, one))

\* TestSecureCharacteristic.__init__ giving both its descriptors the index 2
TestSecureCharacteristic_init_SameIndex(index, service) ==
    LET base == [cls |-> "TestSecureCharacteristic", value |-> ""]
                @@ Characteristic_init(index, TestSecureCharacteristic_UUID,
                       <<"secure-read", "secure-write">>, service)
        one  == add_descriptor(base, TestSecureDescriptor_init(2, base))
    IN  add_descriptor(one, CharacteristicUserDescriptionDescriptor_init(2, one))

TestSecureCharacteristic_init(index, service) ==
    LET base == [cls |-> "TestSecureCharacteristic", value |-> ""]
                @@ Characteristic_init(index, TestSecureCharacteristic_UUID,
                       <<"secure-read", "secure-write">>, service)
        one  == add_descriptor(base, TestSecureDescriptor_init(2, base))
    IN  add_descriptor(one, CharacteristicUserDescriptionDescriptor_init(3, one))

Service_init(index, uuid, primary) ==
    [path            |-> Service_PATH_BASE \o ToString(index),
     uuid            |-> uuid,
     primary         |-> primary,
     characteristics |-> <<>>]

\* Service.add_characteristic
add_characteristic(self, characteristic) ==
    [self EXCEPT !.characteristics = Append(@, characteristic)]

VivaldiS1Service_init(index) ==
    LET base == [cls |-> "VivaldiS1Service"] @@ Service_init(index, TEST_SVC_UUID, TRUE)
        c0   == add_characteristic(base, TestCharacteristic_init(0, base))
        c1   == add_characteristic(c0, TestEncryptCharacteristic_init(1, c0))
    IN  add_characteristic(c1, TestSecureCharacteristic_init(2, c1))

\* Application.__init__: self.services = [] and add_service(VivaldiS1Service(bus, 2))
Application_init == Append(<<>>, VivaldiS1Service_init(VivaldiServiceIndex))

----------------------------------------------------------------------------
(* Navigation.  The bus routes a call to the object registered under the   *)
(* call's object path; a reference [s, c, d] names that object by its      *)
(* place in the tree (c = 0: the service itself, d = 0: the                *)
(* characteristic itself).                                                 *)

ServiceRefs(svcs) == {[s |-> s, c |-> 0, d |-> 0] : s \in 1..Len(svcs)}

ChrcRefs(svcs) ==
    UNION {{[s |-> s, c |-> c, d |-> 0] : c \in 1..Len(svcs[s].characteristics)}
           : s \in 1..Len(svcs)}

DescRefs(svcs) ==
    UNION {{[s |-> r.s, c |-> r.c, d |-> d]
            : d \in 1..Len(svcs[r.s].characteristics[r.c].descriptors)}
           : r \in ChrcRefs(svcs)}

EntityRefs(svcs) == ServiceRefs(svcs) \cup ChrcRefs(svcs) \cup DescRefs(svcs)

Obj(svcs, ref) ==
    IF ref.c = 0 THEN svcs[ref.s]
    ELSE IF ref.d = 0 THEN svcs[ref.s].characteristics[ref.c]
    ELSE svcs[ref.s].characteristics[ref.c].descriptors[ref.d]

\* The tree with the object at ref replaced by obj (a handler's writes to self)
SetObj(svcs, ref, obj) ==
    IF ref.c = 0 THEN [svcs EXCEPT ![ref.s] = obj]
    ELSE IF ref.d = 0 THEN [svcs EXCEPT ![ref.s].characteristics[ref.c] = obj]
    ELSE [svcs EXCEPT ![ref.s].characteristics[ref.c].descriptors[ref.d] = obj]

RECURSIVE Flat(_)
\* The concatenation of a sequence of sequences (nested for loops, in order)
Flat(ss) == IF ss = <<>> THEN <<>> ELSE Head(ss) \o Flat(Tail(ss))

\* d[k] = v on a Python dict
DictSet(d, k, v) == [x \in (DOMAIN d) \cup {k} |-> IF x = k THEN v ELSE d[x]]

----------------------------------------------------------------------------
(* get_properties and the paths lists *)

get_characteristic_paths(self) ==
    [i \in 1..Len(self.characteristics) |-> self.characteristics[i].path]

get_descriptor_paths(self) ==
    [i \in 1..Len(self.descriptors) |-> self.descriptors[i].path]

Service_get_properties(self) ==
    GATT_SERVICE_IFACE :>
        [UUID            |-> self.uuid,
         Primary         |-> self.primary,
         Characteristics |-> get_characteristic_paths(self)]

Characteristic_get_properties(self) ==
    GATT_CHRC_IFACE :>
        [Service     |-> self.service,
         UUID        |-> self.uuid,
         Flags       |-> self.flags,
         Descriptors |-> get_descriptor_paths(self)]

\* Descriptor.get_properties naming the descriptor itself as its owner
Descriptor_get_properties_OwnPath(self) ==
    GATT_DESC_IFACE :>
        [Characteristic |-> self.path,
         UUID           |-> self.uuid,
         Flags          |-> self.flags]

Descriptor_get_properties(self) ==
    GATT_DESC_IFACE :>
        [Characteristic |-> self.chrc,
         UUID           |-> self.uuid,
         Flags          |-> self.flags]

\* The assignments of GetManagedObjects with each characteristic's
\* descriptors entered ahead of the characteristic
GetManagedObjects_items_DescriptorsFirst(svcs) ==
    LET descItems(chrc) ==
            [i \in 1..Len(chrc.descriptors) |->
                <<chrc.descriptors[i].path,
                  Descriptor_get_properties(chrc.descriptors[i])>>]
        chrcItems(chrc) ==
            descItems(chrc) \o <<<<chrc.path, Characteristic_get_properties(chrc)>>>>
        svcItems(svc) ==
            <<<<svc.path, Service_get_properties(svc)>>>>
            \o Flat([i \in 1..Len(svc.characteristics) |->
                        chrcItems(svc.characteristics[i])])
    IN  Flat([i \in 1..Len(svcs) |-> svcItems(svcs[i])])

\* The assignments response[path] = properties of GetManagedObjects, in the
\* order the three nested loops make them
GetManagedObjects_items(svcs) ==
    LET descItems(chrc) ==
            [i \in 1..Len(chrc.descriptors) |->
                <<chrc.descriptors[i].path,
                  Descriptor_get_properties(chrc.descriptors[i])>>]
        chrcItems(chrc) ==
            <<<<chrc.path, Characteristic_get_properties(chrc)>>>> \o descItems(chrc)
        svcItems(svc) ==
            <<<<svc.path, Service_get_properties(svc)>>>>
            \o Flat([i \in 1..Len(svc.characteristics) |->
                        chrcItems(svc.characteristics[i])])
    IN  Flat([i \in 1..Len(svcs) |-> svcItems(svcs[i])])

RECURSIVE DictOf(_, _)
\* The dict after the assignments items[1], items[2], ... made on d
DictOf(d, items) ==
    IF items = <<>> THEN d
    ELSE DictOf(DictSet(d, Head(items)[1], Head(items)[2]), Tail(items))

RECURSIVE KeysOf(_, _)
\* The keys of the dict after the assignments items, in the order a Python 3
\* dict iterates them: that of each key's first assignment
KeysOf(keys, items) ==
    IF items = <<>> THEN keys
    ELSE KeysOf(IF InList(Head(items)[1], keys) THEN keys
                ELSE Append(keys, Head(items)[1]),
                Tail(items))

\* The paths of the response of GetManagedObjects, in the response's order
GetManagedObjects_paths(svcs) == KeysOf(<<>>, GetManagedObjects_items(svcs))

\* Application.GetManagedObjects: the response dict
Application_GetManagedObjects(svcs) == DictOf(<<>>, GetManagedObjects_items(svcs))

----------------------------------------------------------------------------
(* Method handlers.  A handler's outcome is the object after its writes to *)
(* self, the D-Bus error it raised ("ok": it returned), the value it       *)
(* returned and the PropertiesChanged signals it emitted.                  *)

Return(self, value) == [self |-> self, err |-> "ok", result |-> value, signals |-> <<>>]

Raise(self, error) == [self |-> self, err |-> error, result |-> None, signals |-> <<>>]

ServiceClasses == {"VivaldiS1Service"}

ChrcClasses == {"TestCharacteristic", "TestEncryptCharacteristic", "TestSecureCharacteristic"}

DescClasses ==
    {"TestDescriptor", "CharacteristicUserDescriptionDescriptor",
     "TestEncryptDescriptor", "TestSecureDescriptor"}

\* The interface name of the base class of self
InterfaceOf(self) ==
    IF self.cls \in ServiceClasses THEN GATT_SERVICE_IFACE
    ELSE IF self.cls \in ChrcClasses THEN GATT_CHRC_IFACE
    ELSE GATT_DESC_IFACE

Service_GetAll(self, interface) ==
    IF interface # GATT_SERVICE_IFACE
    THEN Raise(self, "InvalidArgs")
    ELSE Return(self, Service_get_properties(self)[GATT_SERVICE_IFACE])

Characteristic_GetAll(self, interface) ==
    IF interface # GATT_CHRC_IFACE
    THEN Raise(self, "InvalidArgs")
    ELSE Return(self, Characteristic_get_properties(self)[GATT_CHRC_IFACE])

\* Descriptor.GetAll comparing against the characteristic interface name
Descriptor_GetAll_ChrcIface(self, interface) ==
    IF interface # GATT_CHRC_IFACE
    THEN Raise(self, "InvalidArgs")
    ELSE Return(self, Descriptor_get_properties(self)[GATT_DESC_IFACE])

Descriptor_GetAll(self, interface) ==
    IF interface # GATT_DESC_IFACE
    THEN Raise(self, "InvalidArgs")
    ELSE Return(self, Descriptor_get_properties(self)[GATT_DESC_IFACE])

\* Characteristic.ReadValue, Descriptor.ReadValue: the defaults
Characteristic_ReadValue(self) == Raise(self, "NotSupported")

Descriptor_ReadValue(self) == Raise(self, "NotSupported")

\* Characteristic.WriteValue: the default
Characteristic_WriteValue(self, value) == Raise(self, "NotSupported")

\* Descriptor.WriteValue: the default
Descriptor_WriteValue(self, value) == Raise(self, "NotSupported")

\* Characteristic.StartNotify that starts notifying and signals the value
Characteristic_StartNotify_Emits(self) ==
    [self    |-> self,
     err     |-> "ok",
     result  |-> None,
     signals |-> <<[path |-> self.path, interface |-> GATT_CHRC_IFACE,
                    changed |-> [Value |-> self.value], invalidated |-> <<>>]>>]

\* Characteristic.StartNotify, Characteristic.StopNotify: the defaults
Characteristic_StartNotify(self) == Raise(self, "NotSupported")

Characteristic_StopNotify(self) == Raise(self, "NotSupported")

\* TestCharacteristic, TestEncryptCharacteristic, TestSecureCharacteristic
TestCharacteristic_ReadValue(self) == Return(self, self.value)

\* The plain characteristic's WriteValue, were it to rewrite the flags too
TestCharacteristic_WriteValue_SetsFlags(self, value) ==
    Return([self EXCEPT !.value = value, !.flags = <<"read">>], None)

TestCharacteristic_WriteValue(self, value) == Return([self EXCEPT !.value = value], None)

TestEncryptCharacteristic_ReadValue(self) == Return(self, self.value)

\* The encrypt characteristic's WriteValue, were it to drop the value
TestEncryptCharacteristic_WriteValue_Discards(self, value) == Return(self, None)

TestEncryptCharacteristic_WriteValue(self, value) ==
    Return([self EXCEPT !.value = value], None)

TestSecureCharacteristic_ReadValue(self) == Return(self, self.value)

TestSecureCharacteristic_WriteValue(self, value) ==
    Return([self EXCEPT !.value = value], None)

TestDescriptor_ReadValue(self) == Return(self, TestDescriptor_StaticValue)

TestEncryptDescriptor_ReadValue(self) == Return(self, TestEncryptDescriptor_StaticValue)

TestSecureDescriptor_ReadValue(self) == Return(self, TestSecureDescriptor_StaticValue)

CharacteristicUserDescriptionDescriptor_ReadValue(self) == Return(self, self.value)

\* The user-description WriteValue without its writable check
CharacteristicUserDescriptionDescriptor_WriteValue_Unchecked(self, value) ==
    Return([self EXCEPT !.value = value], None)

\* The user-description WriteValue storing the value before its check
CharacteristicUserDescriptionDescriptor_WriteValue_StoresFirst(self, value) ==
    IF ~self.writable
    THEN Raise([self EXCEPT !.value = value], "NotPermitted")
    ELSE Return([self EXCEPT !.value = value], None)

CharacteristicUserDescriptionDescriptor_WriteValue(self, value) ==
    IF ~self.writable
    THEN Raise(self, "NotPermitted")
    ELSE Return([self EXCEPT !.value = value], None)

(* Python's method resolution: the method of the concrete class when it    *)
(* defines one, the base class's otherwise.                                *)

GetAll(self, interface) ==
    IF self.cls \in ServiceClasses THEN Service_GetAll(self, interface)
    ELSE IF self.cls \in ChrcClasses THEN Characteristic_GetAll(self, interface)
    ELSE Descriptor_GetAll(self, interface)

ReadValue(self) ==
    CASE self.cls = "TestCharacteristic" -> TestCharacteristic_ReadValue(self)
      [] self.cls = "TestEncryptCharacteristic" -> TestEncryptCharacteristic_ReadValue(self)
      [] self.cls = "TestSecureCharacteristic" -> TestSecureCharacteristic_ReadValue(self)
      [] self.cls = "TestDescriptor" -> TestDescriptor_ReadValue(self)
      [] self.cls = "CharacteristicUserDescriptionDescriptor" ->
            CharacteristicUserDescriptionDescriptor_ReadValue(self)
      [] self.cls = "TestEncryptDescriptor" -> TestEncryptDescriptor_ReadValue(self)
      [] self.cls = "TestSecureDescriptor" -> TestSecureDescriptor_ReadValue(self)
      [] OTHER -> IF self.cls \in ChrcClasses
                  THEN Characteristic_ReadValue(self)
                  ELSE Descriptor_ReadValue(self)

WriteValue(self, value) ==
    CASE self.cls = "TestCharacteristic" -> TestCharacteristic_WriteValue(self, value)
      [] self.cls = "TestEncryptCharacteristic" ->
            TestEncryptCharacteristic_WriteValue(self, value)
      [] self.cls = "TestSecureCharacteristic" ->
            TestSecureCharacteristic_WriteValue(self, value)
      [] self.cls = "CharacteristicUserDescriptionDescriptor" ->
            CharacteristicUserDescriptionDescriptor_WriteValue(self, value)
      [] OTHER -> IF self.cls \in ChrcClasses
                  THEN Characteristic_WriteValue(self, value)
                  ELSE Descriptor_WriteValue(self, value)

StartNotify(self) == Characteristic_StartNotify(self)

StopNotify(self) == Characteristic_StopNotify(self)

----------------------------------------------------------------------------
(* Advertisement.  An optional attribute is <<>> while it is None and <<v>> *)
(* once it holds v, so that "is None" is decided on every kind of value; a *)
(* payload (D-Bus type "ay") is the sequence of its bytes.                 *)

Advertisement_PATH_BASE == "/org/bluez/example/advertisement"

Nothing == <<>>

Just(v) == <<v>>

EmptyDict == [k \in {} |-> <<>>]

\* The list or dict an optional attribute holds, empty while it is None
Held(x, empty) == IF x = Nothing THEN empty ELSE x[1]

\* "not x" for an attribute that holds None, a list or a dict
NotContainer(x) == IF x = Nothing THEN TRUE ELSE DOMAIN x[1] = {}

\* "not x" for an attribute that holds None or a string
NotString(x) == IF x = Nothing THEN TRUE ELSE x[1] = ""

Advertisement_init(index, advertising_type) ==
    [cls               |-> "Advertisement",
     path              |-> Advertisement_PATH_BASE \o ToString(index),
     ad_type           |-> advertising_type,
     service_uuids     |-> Nothing,
     manufacturer_data |-> Nothing,
     solicit_uuids     |-> Nothing,
     service_data      |-> Nothing,
     local_name        |-> Nothing,
     include_tx_power  |-> Nothing,
     data              |-> Nothing]

add_service_uuid(self, uuid) ==
    LET list == IF NotContainer(self.service_uuids) THEN <<>> ELSE self.service_uuids[1]
    IN  [self EXCEPT !.service_uuids = Just(Append(list, uuid))]

add_solicit_uuid(self, uuid) ==
    LET list == IF NotContainer(self.solicit_uuids) THEN <<>> ELSE self.solicit_uuids[1]
    IN  [self EXCEPT !.solicit_uuids = Just(Append(list, uuid))]

add_manufacturer_data(self, manuf_code, data) ==
    LET dict == IF NotContainer(self.manufacturer_data)
                THEN EmptyDict ELSE self.manufacturer_data[1]
    IN  [self EXCEPT !.manufacturer_data = Just(DictSet(dict, manuf_code, data))]

add_service_data(self, uuid, data) ==
    LET dict == IF NotContainer(self.service_data) THEN EmptyDict ELSE self.service_data[1]
    IN  [self EXCEPT !.service_data = Just(DictSet(dict, uuid, data))]

add_local_name(self, name) ==
    LET init == IF NotString(self.local_name)
                THEN [self EXCEPT !.local_name = Just("")] ELSE self
    IN  [init EXCEPT !.local_name = Just(name)]

\* add_data starting from an empty dict on every call
add_data_Reinitialises(self, ad_type, data) ==
    [self EXCEPT !.data = Just(DictSet(EmptyDict, ad_type, data))]

add_data(self, ad_type, data) ==
    LET dict == IF NotContainer(self.data) THEN EmptyDict ELSE self.data[1]
    IN  [self EXCEPT !.data = Just(DictSet(dict, ad_type, data))]

\* self.include_tx_power = value
set_include_tx_power(self, value) == [self EXCEPT !.include_tx_power = Just(value)]

\* The same, testing the attributes for truth instead of "is not None"
Advertisement_get_properties_IfTruthy(self) ==
    LET p0 == [k \in {"Type"} |-> self.ad_type]
        p1 == IF ~NotContainer(self.service_uuids)
              THEN DictSet(p0, "ServiceUUIDs", self.service_uuids[1]) ELSE p0
        p2 == IF ~NotContainer(self.solicit_uuids)
              THEN DictSet(p1, "SolicitUUIDs", self.solicit_uuids[1]) ELSE p1
        p3 == IF ~NotContainer(self.manufacturer_data)
              THEN DictSet(p2, "ManufacturerData", self.manufacturer_data[1]) ELSE p2
        p4 == IF ~NotContainer(self.service_data)
              THEN DictSet(p3, "ServiceData", self.service_data[1]) ELSE p3
        p5 == IF ~NotString(self.local_name)
              THEN DictSet(p4, "LocalName", self.local_name[1]) ELSE p4
        p6 == IF self.include_tx_power = Just(TRUE)
              THEN DictSet(p5, "IncludeTxPower", self.include_tx_power[1]) ELSE p5
        p7 == IF ~NotContainer(self.data)
              THEN DictSet(p6, "Data", self.data[1]) ELSE p6
    IN  [k \in {LE_ADVERTISEMENT_IFACE} |-> p7]

Advertisement_get_properties(self) ==
    LET p0 == [k \in {"Type"} |-> self.ad_type]
        p1 == IF self.service_uuids # Nothing
              THEN DictSet(p0, "ServiceUUIDs", self.service_uuids[1]) ELSE p0
        p2 == IF self.solicit_uuids # Nothing
              THEN DictSet(p1, "SolicitUUIDs", self.solicit_uuids[1]) ELSE p1
        p3 == IF self.manufacturer_data # Nothing
              THEN DictSet(p2, "ManufacturerData", self.manufacturer_data[1]) ELSE p2
        p4 == IF self.service_data # Nothing
              THEN DictSet(p3, "ServiceData", self.service_data[1]) ELSE p3
        p5 == IF self.local_name # Nothing
              THEN DictSet(p4, "LocalName", self.local_name[1]) ELSE p4
        p6 == IF self.include_tx_power # Nothing
              THEN DictSet(p5, "IncludeTxPower", self.include_tx_power[1]) ELSE p5
        p7 == IF self.data # Nothing
              THEN DictSet(p6, "Data", self.data[1]) ELSE p6
    IN  [k \in {LE_ADVERTISEMENT_IFACE} |-> p7]

Advertisement_GetAll(self, interface) ==
    IF interface # LE_ADVERTISEMENT_IFACE
    THEN Raise(self, "InvalidArgs")
    ELSE Return(self, Advertisement_get_properties(self)[LE_ADVERTISEMENT_IFACE])

Advertisement_Release(self) == Return(self, None)

TestAdvertisement_init(index) ==
    LET a0 == [Advertisement_init(index, "peripheral") EXCEPT !.cls = "TestAdvertisement"]
        a1 == add_manufacturer_data(a0, 65535, <<0, 1, 2, 3, 4>>)
        a2 == add_service_data(a1, "9999", <<0, 1, 2, 3, 4>>)
        a3 == add_local_name(a2, "Vivaldi")
        a4 == set_include_tx_power(a3, TRUE)
    IN  add_data(a4, 38, <<1, 1, 0>>)

\* The optional attributes TestAdvertisement.__init__ assigns
TestAdvertisement_assigned ==
    {"manufacturer_data", "service_data", "local_name", "include_tx_power", "data"}

\* No object made yet
NoObject == [cls |-> None]

----------------------------------------------------------------------------
(* Inputs *)

\* The longest value the host stack writes in this model
MaxValueLen == 1

\* The bytes the written values are made of
Bytes == {"A"}

RECURSIVE ValuesUpTo(_)
\* The byte sequences of at most n bytes
ValuesUpTo(n) ==
    IF n = 0 THEN {""}
    ELSE LET shorter == ValuesUpTo(n - 1)
         IN  shorter \cup {v \o b : v \in shorter, b \in Bytes}

ByteValues == ValuesUpTo(MaxValueLen)

\* The interface names GetAll is called with
Interfaces ==
    {GATT_SERVICE_IFACE, GATT_CHRC_IFACE, GATT_DESC_IFACE,
     DBUS_PROP_IFACE, LE_ADVERTISEMENT_IFACE}

\* The devices bluez asks the agent about
Devices == {"/org/bluez/hci0/dev_AA", "/org/bluez/hci0/dev_BB"}

\* No handler is blocked in ask()
NotWaiting == [method |-> None, device |-> None]

NoReply == [op |-> None, target |-> None, arg |-> None, err |-> None, result |-> None]

----------------------------------------------------------------------------
(* The GATT handlers as steps of the main loop.  The loop runs one handler *)
(* at a time and to its end; it dispatches nothing while a handler is      *)
(* blocked in ask() and nothing after mainloop.quit().                     *)

LoopIdle == mainloop = "running" /\ waiting = NotWaiting

\* The handler's outcome applied: its writes to self, its reply, its signals
Complete(ref, op, arg, out) ==
    /\ services' = SetObj(services, ref, out.self)
    /\ reply' = [op     |-> op,
                 target |-> Obj(services, ref).path,
                 arg    |-> arg,
                 err    |-> out.err,
                 result |-> out.result]
    /\ emitted' = emitted \o out.signals

H_GetManagedObjects ==
    /\ reply' = [op     |-> "GetManagedObjects",
                 target |-> "/",
                 arg    |-> None,
                 err    |-> "ok",
                 result |-> Application_GetManagedObjects(services)]
    /\ UNCHANGED <<services, emitted>>

H_GetAll(ref, interface) ==
    Complete(ref, "GetAll", interface, GetAll(Obj(services, ref), interface))

H_ReadValue(ref) == Complete(ref, "ReadValue", None, ReadValue(Obj(services, ref)))

H_WriteValue(ref, value) ==
    Complete(ref, "WriteValue", value, WriteValue(Obj(services, ref), value))

H_StartNotify(ref) == Complete(ref, "StartNotify", None, StartNotify(Obj(services, ref)))

H_StopNotify(ref) == Complete(ref, "StopNotify", None, StopNotify(Obj(services, ref)))

(* The host stack's calls on an idle loop: served as they arrive *)

Call_GetManagedObjects ==
    LoopIdle /\ H_GetManagedObjects /\ UNCHANGED <<agentVars, ad, assigned, pc, host>>

Call_GetAll ==
    \E ref \in EntityRefs(services), interface \in Interfaces :
        LoopIdle /\ H_GetAll(ref, interface) /\ UNCHANGED <<agentVars, ad, assigned, pc, host>>

Call_ReadValue ==
    \E ref \in ChrcRefs(services) \cup DescRefs(services) :
        LoopIdle /\ H_ReadValue(ref) /\ UNCHANGED <<agentVars, ad, assigned, pc, host>>

Call_WriteValue ==
    \E ref \in ChrcRefs(services) \cup DescRefs(services), value \in ByteValues :
        LoopIdle /\ H_WriteValue(ref, value) /\ UNCHANGED <<agentVars, ad, assigned, pc, host>>

Call_StartNotify ==
    \E ref \in ChrcRefs(services) :
        LoopIdle /\ H_StartNotify(ref) /\ UNCHANGED <<agentVars, ad, assigned, pc, host>>

Call_StopNotify ==
    \E ref \in ChrcRefs(services) :
        LoopIdle /\ H_StopNotify(ref) /\ UNCHANGED <<agentVars, ad, assigned, pc, host>>

\* What the host stack holds when main() reaches mainloop.run(): the adapter
\* powered, the agent registered and made the default, both asynchronous
\* registrations requested and not yet answered
HostAtRun ==
    [powered       |-> TRUE,
     agent         |-> "registered",
     default_agent |-> TRUE,
     advertisement |-> "requested",
     application   |-> "requested"]

\* main() at mainloop.run(): the tree built, the agent registered
Init ==
    /\ services = Application_init
    /\ reply = NoReply
    /\ emitted = <<>>
    /\ inbox = <<>>
    /\ waiting = NotWaiting
    /\ trusted = [d \in Devices |-> FALSE]
    /\ exit_on_release = TRUE
    /\ mainloop = "running"
    /\ ad = TestAdvertisement_init(0)
    /\ assigned = TestAdvertisement_assigned
    /\ pc = "run"
    /\ host = HostAtRun

Next ==
    \/ Call_GetManagedObjects
    \/ Call_GetAll
    \/ Call_ReadValue
    \/ Call_WriteValue
    \/ Call_StartNotify
    \/ Call_StopNotify

\* The GATT server under the host stack's calls
Spec == Init /\ [][Next]_vars

----------------------------------------------------------------------------
(* The pairing agent *)

\* The names bound at module level when a handler runs: the imports, the
\* constants, the classes and functions, and mainloop, which main() declares
\* global.  main() assigns bus, adapter, agent and app as its own locals.
ModuleGlobals ==
    {"dbus", "array", "GObject", "sys", "randint", "mainloop",
     "BLUEZ_SERVICE_NAME", "GATT_MANAGER_IFACE", "DBUS_OM_IFACE", "DBUS_PROP_IFACE",
     "GATT_SERVICE_IFACE", "GATT_CHRC_IFACE", "GATT_DESC_IFACE",
     "LE_ADVERTISING_MANAGER_IFACE", "LE_ADVERTISEMENT_IFACE",
     "AGENT_INTERFACE", "AGENT_PATH",
     "ask", "set_trusted", "dev_connect", "Rejected", "Agent", "main"}

\* set_trusted(path): the lookup of the global name bus, then
\* props.Set("org.bluez.Device1", "Trusted", True) on the device
set_trusted(path, tr) ==
    IF "bus" \in ModuleGlobals
    THEN [err |-> "ok", trusted |-> [tr EXCEPT ![path] = TRUE]]
    ELSE [err |-> "NameError", trusted |-> tr]

\* What the operator types at the prompt of ask()
Answers == {"yes", "no", "", "123456"}

\* The answers that are decimal numerals, with their values
Numerals == "123456" :> 123456

\* dbus.UInt32(passkey) of a string
UInt32(text) ==
    IF text \in DOMAIN Numerals
    THEN [err |-> "ok", value |-> Numerals[text]]
    ELSE [err |-> "ValueError", value |-> None]

(* A handler that calls ask() runs in two parts: up to the prompt, where   *)
(* it blocks in input() on the main loop's thread, and from the answer to  *)
(* its end.  The first part yields asks = TRUE when it reached the prompt. *)

Asks(tr) == [asks |-> TRUE, err |-> "ok", result |-> None, trusted |-> tr]

Ends(error, value, tr) == [asks |-> FALSE, err |-> error, result |-> value, trusted |-> tr]

AuthorizeService_begin(device, tr) == Asks(tr)

AuthorizeService_resume(device, authorize, tr) ==
    IF authorize = "yes"
    THEN Ends("ok", None, tr)
    ELSE Ends("Rejected", None, tr)

RequestPinCode_begin(device, tr) ==
    LET t == set_trusted(device, tr)
    IN  IF t.err # "ok" THEN Ends(t.err, None, tr) ELSE Asks(t.trusted)

RequestPinCode_resume(device, pincode, tr) == Ends("ok", pincode, tr)

RequestPasskey_begin(device, tr) ==
    LET t == set_trusted(device, tr)
    IN  IF t.err # "ok" THEN Ends(t.err, None, tr) ELSE Asks(t.trusted)

RequestPasskey_resume(device, passkey, tr) ==
    LET n == UInt32(passkey)
    IN  IF n.err # "ok" THEN Ends(n.err, None, tr) ELSE Ends("ok", n.value, tr)

RequestConfirmation_begin(device, tr) == Asks(tr)

\* RequestConfirmation that takes every answer but "no" for a confirmation
RequestConfirmation_resume_NotNo(device, confirm, tr) ==
    IF confirm # "no"
    THEN Ends("ok", None, tr)
    ELSE Ends("Rejected", None, tr)

RequestConfirmation_resume(device, confirm, tr) ==
    IF confirm = "yes"
    THEN LET t == set_trusted(device, tr)
         IN  IF t.err # "ok" THEN Ends(t.err, None, tr) ELSE Ends("ok", None, t.trusted)
    ELSE Ends("Rejected", None, tr)

RequestAuthorization_begin(device, tr) == Asks(tr)

RequestAuthorization_resume(device, auth, tr) ==
    IF auth = "yes"
    THEN Ends("ok", None, tr)
    ELSE Ends("Rejected", None, tr)

AgentRequests ==
    {"AuthorizeService", "RequestPinCode", "RequestPasskey",
     "RequestConfirmation", "RequestAuthorization"}

\* The part of the handler from the answer of ask() on
Resume(method, device, answer, tr) ==
    CASE method = "AuthorizeService" -> AuthorizeService_resume(device, answer, tr)
      [] method = "RequestPinCode" -> RequestPinCode_resume(device, answer, tr)
      [] method = "RequestPasskey" -> RequestPasskey_resume(device, answer, tr)
      [] method = "RequestConfirmation" -> RequestConfirmation_resume(device, answer, tr)
      [] method = "RequestAuthorization" -> RequestAuthorization_resume(device, answer, tr)

----------------------------------------------------------------------------
(* The main loop with the host stack's calls queued on the bus connection *)

\* The calls that can be waiting on the connection at once in this model
MaxInbox == 1

NoRef == [s |-> 0, c |-> 0, d |-> 0]

Msg(method, ref, interface, value, device) ==
    [method |-> method, ref |-> ref, interface |-> interface,
     value |-> value, device |-> device]

FirstService == [s |-> 1, c |-> 0, d |-> 0]

FirstChrc == [s |-> 1, c |-> 1, d |-> 0]

\* The calls the host stack makes while the agent is registered
HostCalls ==
    {Msg(m, NoRef, None, "", dev) : m \in AgentRequests, dev \in Devices}
    \cup {Msg("Cancel", NoRef, None, "", None), Msg("Release", NoRef, None, "", None)}
    \cup {Msg("GetManagedObjects", NoRef, None, "", None),
          Msg("GetAll", FirstService, GATT_SERVICE_IFACE, "", None),
          Msg("ReadValue", FirstChrc, None, "", None)}
    \cup {Msg("WriteValue", FirstChrc, None, v, None) : v \in ByteValues}

GattMethods == {"GetManagedObjects", "GetAll", "ReadValue", "WriteValue"}

\* A call of the host stack reaches the process's connection
Arrive ==
    \E m \in HostCalls :
        /\ mainloop = "running"
        /\ Len(inbox) < MaxInbox
        /\ inbox' = Append(inbox, m)
        /\ UNCHANGED <<services, reply, emitted, waiting, trusted, exit_on_release, mainloop>>
        /\ UNCHANGED <<ad, assigned, pc, host>>

\* The loop takes the next call off the connection
Next_call(method) ==
    /\ LoopIdle
    /\ inbox # <<>>
    /\ Head(inbox).method = method
    /\ inbox' = Tail(inbox)

Dispatch_GetManagedObjects ==
    /\ Next_call("GetManagedObjects")
    /\ H_GetManagedObjects
    /\ UNCHANGED <<waiting, trusted, exit_on_release, mainloop, ad, assigned, pc, host>>

Dispatch_GetAll ==
    /\ Next_call("GetAll")
    /\ H_GetAll(Head(inbox).ref, Head(inbox).interface)
    /\ UNCHANGED <<waiting, trusted, exit_on_release, mainloop, ad, assigned, pc, host>>

Dispatch_ReadValue ==
    /\ Next_call("ReadValue")
    /\ H_ReadValue(Head(inbox).ref)
    /\ UNCHANGED <<waiting, trusted, exit_on_release, mainloop, ad, assigned, pc, host>>

Dispatch_WriteValue ==
    /\ Next_call("WriteValue")
    /\ H_WriteValue(Head(inbox).ref, Head(inbox).value)
    /\ UNCHANGED <<waiting, trusted, exit_on_release, mainloop, ad, assigned, pc, host>>

\* The reply of an agent method that ended
AgentReply(method, device, answer, out) ==
    [op |-> method, target |-> device, arg |-> answer, err |-> out.err, result |-> out.result]

\* The first part of an agent request handler, begin(device, trusted)
Agent_begin(method, out) ==
    /\ trusted' = out.trusted
    /\ IF out.asks
       THEN /\ waiting' = [method |-> method, device |-> Head(inbox).device]
            /\ reply' = reply
       ELSE /\ waiting' = waiting
            /\ reply' = AgentReply(method, Head(inbox).device, None, out)
    /\ UNCHANGED <<services, emitted, exit_on_release, mainloop, ad, assigned, pc, host>>

Agent_AuthorizeService ==
    /\ Next_call("AuthorizeService")
    /\ Agent_begin("AuthorizeService", AuthorizeService_begin(Head(inbox).device, trusted))

Agent_RequestPinCode ==
    /\ Next_call("RequestPinCode")
    /\ Agent_begin("RequestPinCode", RequestPinCode_begin(Head(inbox).device, trusted))

Agent_RequestPasskey ==
    /\ Next_call("RequestPasskey")
    /\ Agent_begin("RequestPasskey", RequestPasskey_begin(Head(inbox).device, trusted))

Agent_RequestConfirmation ==
    /\ Next_call("RequestConfirmation")
    /\ Agent_begin("RequestConfirmation",
                   RequestConfirmation_begin(Head(inbox).device, trusted))

Agent_RequestAuthorization ==
    /\ Next_call("RequestAuthorization")
    /\ Agent_begin("RequestAuthorization",
                   RequestAuthorization_begin(Head(inbox).device, trusted))

\* input() returns: the blocked handler runs to its end
OperatorAnswers ==
    \E answer \in Answers :
        /\ mainloop = "running"
        /\ waiting # NotWaiting
        /\ LET out == Resume(waiting.method, waiting.device, answer, trusted)
           IN  /\ reply' = AgentReply(waiting.method, waiting.device, answer, out)
               /\ trusted' = out.trusted
        /\ waiting' = NotWaiting
        /\ UNCHANGED <<services, emitted, inbox, exit_on_release, mainloop, ad, assigned, pc, host>>

\* Agent.set_exit_on_release, called by the code that embeds the agent
Agent_set_exit_on_release ==
    \E value \in BOOLEAN :
        /\ LoopIdle
        /\ exit_on_release' = value
        /\ UNCHANGED <<services, reply, emitted, inbox, waiting, trusted, mainloop>>
        /\ UNCHANGED <<ad, assigned, pc, host>>

\* Cancel, were it to clear the policy flag
Agent_Cancel_ClearsFlag ==
    /\ Next_call("Cancel")
    /\ reply' = [op |-> "Cancel", target |-> None, arg |-> None, err |-> "ok", result |-> None]
    /\ exit_on_release' = FALSE
    /\ UNCHANGED <<services, emitted, waiting, trusted, mainloop>>
    /\ UNCHANGED <<ad, assigned, pc, host>>

\* Agent.Cancel
Agent_Cancel ==
    /\ Next_call("Cancel")
    /\ reply' = [op |-> "Cancel", target |-> None, arg |-> None, err |-> "ok", result |-> None]
    /\ UNCHANGED <<services, emitted, waiting, trusted, exit_on_release, mainloop>>
    /\ UNCHANGED <<ad, assigned, pc, host>>

\* Release, were it to quit the loop whatever the policy flag
Agent_Release_AlwaysQuits ==
    /\ Next_call("Release")
    /\ reply' = [op |-> "Release", target |-> None, arg |-> None, err |-> "ok", result |-> None]
    /\ mainloop' = "quit"
    /\ UNCHANGED <<services, emitted, waiting, trusted, exit_on_release, ad, assigned, pc, host>>

\* Agent.Release
Agent_Release ==
    /\ Next_call("Release")
    /\ reply' = [op |-> "Release", target |-> None, arg |-> None, err |-> "ok", result |-> None]
    /\ mainloop' = IF exit_on_release THEN "quit" ELSE mainloop
    /\ UNCHANGED <<services, emitted, waiting, trusted, exit_on_release, ad, assigned, pc, host>>

\* The entity calls the loop can serve from the connection
Dispatch_Entity ==
    \/ Dispatch_GetManagedObjects
    \/ Dispatch_GetAll
    \/ Dispatch_ReadValue
    \/ Dispatch_WriteValue

NextAgent ==
    \/ Arrive
    \/ Dispatch_GetManagedObjects
    \/ Dispatch_GetAll
    \/ Dispatch_ReadValue
    \/ Dispatch_WriteValue
    \/ Agent_AuthorizeService
    \/ Agent_RequestPinCode
    \/ Agent_RequestPasskey
    \/ Agent_RequestConfirmation
    \/ Agent_RequestAuthorization
    \/ OperatorAnswers
    \/ Agent_Cancel
    \/ Agent_Release
    \/ Agent_set_exit_on_release

\* The main loop serving the agent's and the entities' calls off one connection
SpecAgent == Init /\ [][NextAgent]_vars

----------------------------------------------------------------------------
(* The Advertisement under its mutators: the object as Advertisement.__init__ *)
(* leaves it, then any sequence of the calls a subclass constructor such as  *)
(* TestAdvertisement.__init__ makes on it.                                   *)

\* The longest UUID list built in this model
MaxUuids == 2

\* The payloads given to the mutators
Payloads == {<<0, 1, 2, 3, 4>>, <<>>}

\* A mutator returned: self is as it left it, its attribute was assigned
Mutated(self, attribute) ==
    /\ ad' = self
    /\ assigned' = assigned \cup {attribute}
    /\ UNCHANGED <<gattVars, agentVars, pc, host>>

Ad_add_service_uuid ==
    \E uuid \in {"180D", "180F"} :
        /\ Len(Held(ad.service_uuids, <<>>)) < MaxUuids
        /\ Mutated(add_service_uuid(ad, uuid), "service_uuids")

Ad_add_solicit_uuid ==
    \E uuid \in {"180A"} :
        /\ Len(Held(ad.solicit_uuids, <<>>)) < MaxUuids
        /\ Mutated(add_solicit_uuid(ad, uuid), "solicit_uuids")

Ad_add_manufacturer_data ==
    \E manuf_code \in {65535, 76} :
        Mutated(add_manufacturer_data(ad, manuf_code, <<0, 1, 2, 3, 4>>), "manufacturer_data")

Ad_add_service_data ==
    \E uuid \in {"9999", "180D"}, data \in Payloads :
        Mutated(add_service_data(ad, uuid, data), "service_data")

Ad_add_local_name ==
    \E name \in {"Vivaldi", ""} : Mutated(add_local_name(ad, name), "local_name")

Ad_add_data ==
    \E ad_type \in {38, 1} : Mutated(add_data(ad, ad_type, <<1, 1, 0>>), "data")

Ad_set_include_tx_power ==
    \E value \in BOOLEAN : Mutated(set_include_tx_power(ad, value), "include_tx_power")

\* main() inside TestAdvertisement(bus, 0), Advertisement.__init__ returned
InitAd ==
    /\ services = <<>>
    /\ reply = NoReply
    /\ emitted = <<>>
    /\ inbox = <<>>
    /\ waiting = NotWaiting
    /\ trusted = [d \in Devices |-> FALSE]
    /\ exit_on_release = TRUE
    /\ mainloop = "none"
    /\ ad = Advertisement_init(0, "peripheral")
    /\ assigned = {}
    /\ pc = "TestAdvertisement"
    /\ host = [HostAtRun EXCEPT !.agent = "none", !.default_agent = FALSE,
                                !.advertisement = "none", !.application = "none"]

NextAd ==
    \/ Ad_add_service_uuid
    \/ Ad_add_solicit_uuid
    \/ Ad_add_manufacturer_data
    \/ Ad_add_service_data
    \/ Ad_add_local_name
    \/ Ad_add_data
    \/ Ad_set_include_tx_power

\* An Advertisement under construction
SpecAd == InitAd /\ [][NextAd]_vars

----------------------------------------------------------------------------
(* main(): the statements that change what the process or the host stack  *)
(* holds, one step each, then the loop, then the statements after it.     *)

\* main() with the application registered ahead of its construction
main_order_RegistersFirst ==
    <<"find_adapter", "Powered", "TestAdvertisement", "RegisterApplication", "MainLoop",
      "RegisterAgent", "RegisterAdvertisement", "Application", "RequestDefaultAgent",
      "run", "UnregisterAdvertisement", "remove_from_connection", "end">>

\* The statements of main() in program order
main_order ==
    <<"find_adapter", "Powered", "TestAdvertisement", "Application", "MainLoop",
      "RegisterAgent", "RegisterAdvertisement", "RegisterApplication", "RequestDefaultAgent",
      "run", "UnregisterAdvertisement", "remove_from_connection", "end">>

\* The statement after pc
Following == main_order[(CHOOSE i \in 1..Len(main_order) : main_order[i] = pc) + 1]

\* One statement of main()
main ==
    \/ /\ pc = "find_adapter"
       /\ \E adapter \in {None, "/org/bluez/hci0"} :
             pc' = IF adapter = None THEN "return" ELSE Following
       /\ UNCHANGED <<gattVars, agentVars, ad, assigned, host>>
    \/ /\ pc = "Powered"
       /\ host' = [host EXCEPT !.powered = TRUE]
       /\ pc' = Following
       /\ UNCHANGED <<gattVars, agentVars, ad, assigned>>
    \/ /\ pc = "TestAdvertisement"
       /\ ad' = TestAdvertisement_init(0)
       /\ assigned' = TestAdvertisement_assigned
       /\ pc' = Following
       /\ UNCHANGED <<gattVars, agentVars, host>>
    \/ /\ pc = "Application"
       /\ services' = Application_init
       /\ pc' = Following
       /\ UNCHANGED <<reply, emitted, agentVars, ad, assigned, host>>
    \/ /\ pc = "MainLoop"
       /\ mainloop' = "created"
       /\ pc' = Following
       /\ UNCHANGED <<gattVars, inbox, waiting, trusted, exit_on_release, ad, assigned, host>>
    \/ /\ pc = "RegisterAgent"
       /\ host' = [host EXCEPT !.agent = "registered"]
       /\ pc' = Following
       /\ UNCHANGED <<gattVars, agentVars, ad, assigned>>
    \/ /\ pc = "RegisterAdvertisement"
       /\ host' = [host EXCEPT !.advertisement = "requested"]
       /\ pc' = Following
       /\ UNCHANGED <<gattVars, agentVars, ad, assigned>>
    \/ /\ pc = "RegisterApplication"
       /\ host' = [host EXCEPT !.application = "requested"]
       /\ pc' = Following
       /\ UNCHANGED <<gattVars, agentVars, ad, assigned>>
    \/ /\ pc = "RequestDefaultAgent"
       /\ host' = [host EXCEPT !.default_agent = TRUE]
       /\ pc' = Following
       /\ UNCHANGED <<gattVars, agentVars, ad, assigned>>
    \/ /\ pc = "run"
       /\ mainloop = "created"
       /\ mainloop' = "running"
       /\ UNCHANGED <<gattVars, inbox, waiting, trusted, exit_on_release, ad, assigned,
                      pc, host>>
    \/ /\ pc = "run"
       /\ mainloop = "quit"
       /\ pc' = Following
       /\ UNCHANGED <<gattVars, agentVars, ad, assigned, host>>
    \/ /\ pc = "UnregisterAdvertisement"
       /\ IF host.advertisement = "registered"
          THEN host' = [host EXCEPT !.advertisement = "none"] /\ pc' = Following
          ELSE host' = host /\ pc' = "raise"
       /\ UNCHANGED <<gattVars, agentVars, ad, assigned>>
    \/ /\ pc = "remove_from_connection"
       /\ pc' = Following
       /\ UNCHANGED <<gattVars, agentVars, ad, assigned, host>>

(* The replies to the two asynchronous registrations, dispatched by the loop *)

register_ad_cb ==
    /\ LoopIdle
    /\ host.advertisement = "requested"
    /\ host' = [host EXCEPT !.advertisement = "registered"]
    /\ UNCHANGED <<gattVars, agentVars, ad, assigned, pc>>

register_ad_error_cb ==
    /\ LoopIdle
    /\ host.advertisement = "requested"
    /\ host' = [host EXCEPT !.advertisement = "rejected"]
    /\ mainloop' = "quit"
    /\ UNCHANGED <<gattVars, inbox, waiting, trusted, exit_on_release, ad, assigned, pc>>

register_app_cb ==
    /\ LoopIdle
    /\ host.application = "requested"
    /\ host' = [host EXCEPT !.application = "registered"]
    /\ UNCHANGED <<gattVars, agentVars, ad, assigned, pc>>

\* register_app_error_cb, were it to print only
register_app_error_cb_Prints ==
    /\ LoopIdle
    /\ host.application = "requested"
    /\ host' = [host EXCEPT !.application = "rejected"]
    /\ UNCHANGED <<gattVars, agentVars, ad, assigned, pc>>

register_app_error_cb ==
    /\ LoopIdle
    /\ host.application = "requested"
    /\ host' = [host EXCEPT !.application = "rejected"]
    /\ mainloop' = "quit"
    /\ UNCHANGED <<gattVars, inbox, waiting, trusted, exit_on_release, ad, assigned, pc>>

\* The host stack's next call reaches the connection, one call at a time
Arrive_one ==
    \E m \in HostCalls \cup {Msg("LEAdvertisement1.Release", NoRef, None, "", None)} :
        /\ mainloop = "running"
        /\ inbox = <<>>
        /\ inbox' = <<m>>
        /\ UNCHANGED <<gattVars, waiting, trusted, exit_on_release, mainloop>>
        /\ UNCHANGED <<ad, assigned, pc, host>>

\* Advertisement.Release
Dispatch_Advertisement_Release ==
    /\ Next_call("LEAdvertisement1.Release")
    /\ reply' = [op     |-> "LEAdvertisement1.Release",
                 target |-> ad.path,
                 arg    |-> None,
                 err    |-> Advertisement_Release(ad).err,
                 result |-> Advertisement_Release(ad).result]
    /\ UNCHANGED <<services, emitted, waiting, trusted, exit_on_release, mainloop>>
    /\ UNCHANGED <<ad, assigned, pc, host>>

\* The process starts: nothing constructed, nothing asked of the host stack
InitMain ==
    /\ services = <<>>
    /\ reply = NoReply
    /\ emitted = <<>>
    /\ inbox = <<>>
    /\ waiting = NotWaiting
    /\ trusted = [d \in Devices |-> FALSE]
    /\ exit_on_release = TRUE
    /\ mainloop = "none"
    /\ ad = NoObject
    /\ assigned = {}
    /\ pc = "find_adapter"
    /\ host = [powered       |-> FALSE,
               agent         |-> "none",
               default_agent |-> FALSE,
               advertisement |-> "none",
               application   |-> "none"]

NextMain ==
    \/ main
    \/ register_ad_cb
    \/ register_ad_error_cb
    \/ register_app_cb
    \/ register_app_error_cb
    \/ Arrive_one
    \/ Dispatch_GetManagedObjects
    \/ Dispatch_GetAll
    \/ Dispatch_ReadValue
    \/ Dispatch_WriteValue
    \/ Call_StartNotify
    \/ Call_StopNotify
    \/ Dispatch_Advertisement_Release
    \/ Agent_AuthorizeService
    \/ Agent_RequestPinCode
    \/ Agent_RequestPasskey
    \/ Agent_RequestConfirmation
    \/ Agent_RequestAuthorization
    \/ OperatorAnswers
    \/ Agent_Cancel
    \/ Agent_Release

\* The process from its start to its end
SpecMain == InitMain /\ [][NextMain]_vars

----------------------------------------------------------------------------
(* Properties of the entity tree, checked under Spec *)

\* The entity registered under a path
EntityAt(svcs, path) == CHOOSE r \in EntityRefs(svcs) : Obj(svcs, r).path = path

IsDescPath(svcs, path) == \E r \in DescRefs(svcs) : Obj(svcs, r).path = path

\* The characteristic that owns the descriptor at ref
Owner(svcs, ref) == Obj(svcs, [ref EXCEPT !.d = 0])

StaticDescClasses == {"TestDescriptor", "TestEncryptDescriptor", "TestSecureDescriptor"}

SomeValueWritten == \E r \in ChrcRefs(services) : Obj(services, r).value # ""

\* A snapshot that holds one entry for each entity of the tree and no other,
\* each entry keyed by the interface name of its entity's kind alone
SnapshotExact(resp, svcs) ==
    /\ DOMAIN resp = {Obj(svcs, r).path : r \in EntityRefs(svcs)}
    /\ Cardinality(DOMAIN resp) = Cardinality(EntityRefs(svcs))
    /\ \A r \in EntityRefs(svcs) :
          DOMAIN resp[Obj(svcs, r).path] = {InterfaceOf(Obj(svcs, r))}

\* C1: in every reachable state GetManagedObjects returns a mapping with
\* exactly one entry for each Service, Characteristic and Descriptor of the
\* tree, no entity missing and no extra path, and each entry's key set is
\* exactly the interface name of its entity's kind.
C1_SnapshotOnePerEntity ==
    /\ SnapshotExact(Application_GetManagedObjects(services), services)
    /\ reply.op = "GetManagedObjects" => SnapshotExact(reply.result, services)

\* GetManagedObjects answered with its ten entries after a value was written
C1_Witness ==
    /\ reply.op = "GetManagedObjects"
    /\ Cardinality(DOMAIN reply.result) = 10
    /\ SomeValueWritten

\* C2: GetAll(I) fails with InvalidArgs when I is not the entity's own
\* interface, and otherwise returns exactly the property mapping that
\* GetManagedObjects reports for the entity's path under I in the same state.
C2_GetAllMatchesSnapshot ==
    reply.op = "GetAll" =>
        IF reply.arg # InterfaceOf(Obj(services, EntityAt(services, reply.target)))
        THEN reply.err = "InvalidArgs"
        ELSE /\ reply.err = "ok"
             /\ reply.result =
                    Application_GetManagedObjects(services)[reply.target][reply.arg]

\* GetAll of a descriptor with its own interface name answered its properties
C2_Witness ==
    /\ reply.op = "GetAll"
    /\ IsDescPath(services, reply.target)
    /\ reply.arg = GATT_DESC_IFACE
    /\ reply.err = "ok"
    /\ SomeValueWritten

\* A WriteValue on a descriptor whose owning characteristic's flags lack
\* "writable-auxiliaries" has just ended
WriteToNonWritableDesc ==
    /\ reply.op = "WriteValue"
    /\ IsDescPath(services, reply.target)
    /\ ~InList("writable-auxiliaries",
               Owner(services, EntityAt(services, reply.target)).flags)

\* C3 as stated: WriteValue on every descriptor whose owning characteristic
\* lacks "writable-auxiliaries", the static descriptors included, fails with
\* NotPermitted.
C3_AllNonWritableNotPermitted ==
    WriteToNonWritableDesc => reply.err = "NotPermitted"

\* C3 amended: under a characteristic without "writable-auxiliaries",
\* WriteValue on the user-description descriptor fails with NotPermitted, and
\* on a static descriptor, which has no WriteValue of its own, with
\* NotSupported.
C3_UserDescriptionNotPermitted ==
    WriteToNonWritableDesc =>
        IF Obj(services, EntityAt(services, reply.target)).cls
               = "CharacteristicUserDescriptionDescriptor"
        THEN reply.err = "NotPermitted"
        ELSE reply.err = "NotSupported"

\* The user-description descriptor of a characteristic without
\* "writable-auxiliaries" refused a write
C3_Witness ==
    /\ WriteToNonWritableDesc
    /\ Obj(services, EntityAt(services, reply.target)).cls
           = "CharacteristicUserDescriptionDescriptor"
    /\ reply.err = "NotPermitted"

\* The reply r is that of an operation the entity's class does not override
IsDefaultOp(r) ==
    \/ r.op \in {"StartNotify", "StopNotify"}
    \/ /\ r.op = "WriteValue"
       /\ IsDescPath(services, r.target)
       /\ Obj(services, EntityAt(services, r.target)).cls \in StaticDescClasses

\* C4: StartNotify and StopNotify on each characteristic and WriteValue on each
\* static-value descriptor fail with NotSupported in every reachable state and
\* change no state, and no PropertiesChanged signal is ever emitted.
C4_DefaultsNotSupported ==
    /\ [](/\ IsDefaultOp(reply) => reply.err = "NotSupported"
          /\ emitted = <<>>)
    /\ [][IsDefaultOp(reply') => services' = services /\ emitted' = emitted]_vars

\* StartNotify was refused on a characteristic whose value had been written
C4_Witness ==
    /\ reply.op = "StartNotify"
    /\ reply.err = "NotSupported"
    /\ Obj(services, EntityAt(services, reply.target)).value # ""

\* The largest index looked for in a path
MaxIndex == 3

\* path is prefix, then segment, then the decimal numeral of n
HasIndex(path, prefix, segment, n) == path = prefix \o segment \o ToString(n)

\* The N of a child's path under its parent's path
IndexIn(path, prefix, segment) ==
    CHOOSE n \in 0..MaxIndex : HasIndex(path, prefix, segment, n)

\* The children's paths are the parent's path, the segment and an N that
\* grows along the list, the order of construction
IndexedInOrder(children, prefix, segment) ==
    /\ \A i \in 1..Len(children) :
          \E n \in 0..MaxIndex : HasIndex(children[i].path, prefix, segment, n)
    /\ \A i, j \in 1..Len(children) :
          i < j => IndexIn(children[i].path, prefix, segment)
                       < IndexIn(children[j].path, prefix, segment)

\* The i-th child constructed has N = i - 1
IndexedByPosition(children, prefix, segment) ==
    \A i \in 1..Len(children) : HasIndex(children[i].path, prefix, segment, i - 1)

\* C5 as stated: every characteristic's path is <service-path>/char<N> and
\* every descriptor's path is <characteristic-path>/desc<N> with N the place of
\* the child in the order its parent's children were constructed, for every
\* entity of the tree.
C5_IndexIsConstructionPosition ==
    \A s \in 1..Len(services) :
        /\ IndexedByPosition(services[s].characteristics, services[s].path, "/char")
        /\ \A c \in 1..Len(services[s].characteristics) :
              IndexedByPosition(services[s].characteristics[c].descriptors,
                                services[s].characteristics[c].path, "/desc")

\* C5 amended: the paths are <service-path>/char<N> and
\* <characteristic-path>/desc<N> with N the index given at construction, which
\* grows in the order the children of a parent were constructed, so that no two
\* siblings share an N; N is the zero-based place for the characteristics and
\* for the descriptors of the plain characteristic, while the descriptors of
\* the encrypt and secure characteristics are desc2 and desc3.
C5_IndexGrowsInConstructionOrder ==
    \A s \in 1..Len(services) :
        LET chrcs == services[s].characteristics
        IN  /\ IndexedInOrder(chrcs, services[s].path, "/char")
            /\ IndexedByPosition(chrcs, services[s].path, "/char")
            /\ \A c \in 1..Len(chrcs) :
                  /\ IndexedInOrder(chrcs[c].descriptors, chrcs[c].path, "/desc")
                  /\ chrcs[c].cls = "TestCharacteristic" =>
                        IndexedByPosition(chrcs[c].descriptors, chrcs[c].path, "/desc")
                  /\ chrcs[c].cls \in {"TestEncryptCharacteristic",
                                       "TestSecureCharacteristic"} =>
                        \A d \in 1..Len(chrcs[c].descriptors) :
                            HasIndex(chrcs[c].descriptors[d].path, chrcs[c].path,
                                     "/desc", d + 1)

\* The first descriptor of the encrypt characteristic is desc2, in a tree that
\* has served a write
C5_Witness ==
    /\ services[1].characteristics[2].cls = "TestEncryptCharacteristic"
    /\ services[1].characteristics[2].descriptors[1].path
           = "/org/bluez/example/service2/char1/desc2"
    /\ reply.op = "WriteValue"
    /\ reply.err = "ok"

----------------------------------------------------------------------------
(* Properties of the pairing agent and the main loop, checked under        *)
(* SpecAgent                                                               *)

\* C6 as stated: RequestPinCode, RequestPasskey and a RequestConfirmation
\* answered "yes" have marked the device trusted when they end.
C6_TrustedWhenHandlerEnds ==
    (/\ reply.op \in {"RequestPinCode", "RequestPasskey", "RequestConfirmation"}
     /\ reply.op = "RequestConfirmation" => reply.arg = "yes")
        => trusted[reply.target]

RefusableRequests == {"RequestConfirmation", "RequestAuthorization", "AuthorizeService"}

\* C7: a RequestConfirmation, RequestAuthorization or AuthorizeService answered
\* anything but "yes" fails with Rejected and leaves the trusted mark of every
\* device as it was, and an accepted RequestAuthorization or AuthorizeService
\* marks no trust either.
C7_RefusalRejectsAndKeepsTrust ==
    /\ []((reply.op \in RefusableRequests /\ reply.arg # "yes")
              => reply.err = "Rejected")
    /\ []((reply.op \in {"RequestAuthorization", "AuthorizeService"}
              /\ reply.arg = "yes") => reply.err = "ok")
    /\ [][((waiting.method \in RefusableRequests \/ waiting'.method \in RefusableRequests)
            /\ ~(/\ waiting.method = "RequestConfirmation"
                 /\ waiting' = NotWaiting
                 /\ reply'.arg = "yes"))
              => trusted' = trusted]_vars

\* A RequestConfirmation answered "no" was rejected
C7_Witness ==
    /\ reply.op = "RequestConfirmation"
    /\ reply.arg = "no"
    /\ reply.err = "Rejected"

\* C8 as stated: every agent request handler ends by returning or by failing
\* with Rejected, and in no other way.
C8_OnlyOkOrRejected ==
    reply.op \in AgentRequests => reply.err \in {"ok", "Rejected"}

\* C9 as stated: while an agent request waits for the operator, an entity call
\* of the host stack that is next on the connection can be dispatched.
C9_EntityCallsServedWhileWaiting ==
    (/\ waiting # NotWaiting
     /\ inbox # <<>>
     /\ Head(inbox).method \in GattMethods)
        => ENABLED Dispatch_Entity

\* C10 as stated: a request during whose wait Cancel arrived completes with a
\* neutral result: it does not accept and it marks no device trusted.
C10_CancelledRequestEndsNeutral ==
    [][(/\ waiting # NotWaiting
        /\ \E i \in 1..Len(inbox) : inbox[i].method = "Cancel"
        /\ waiting' = NotWaiting)
          => (reply'.err # "ok" /\ trusted' = trusted)]_vars

----------------------------------------------------------------------------
(* Properties of Cancel, Release and the loop's termination *)

\* C11: Cancel never fails, and a step that serves Cancel leaves the
\* exit-on-release flag, every device's trusted mark and the loop's
\* running/terminated state as they were
C11_CancelChangesNothing ==
    /\ [](reply.op = "Cancel" => reply.err = "ok")
    /\ [][Next_call("Cancel") =>
            /\ reply'.op = "Cancel"
            /\ exit_on_release' = exit_on_release
            /\ trusted' = trusted
            /\ mainloop' = mainloop
            /\ waiting' = waiting]_vars

\* Cancel was served while the flag was cleared
C11_Witness == reply.op = "Cancel" /\ reply.err = "ok" /\ ~exit_on_release

\* The host stack's rejection of the registration is delivered in this step
RejectedNow(registration) ==
    host'[registration] = "rejected" /\ host[registration] # "rejected"

\* The methods whose handlers the loop serves off the connection, Release of
\* the agent aside
OtherMethods ==
    {"GetManagedObjects", "GetAll", "ReadValue", "WriteValue", "Cancel",
     "LEAdvertisement1.Release"} \cup AgentRequests

\* C12: a step that delivers the rejection of the advertisement or of the
\* application registration ends the loop; a running loop is ended by such a
\* step or by the agent's Release with the flag set, by nothing else; and
\* the steps that serve GetManagedObjects, GetAll, ReadValue, WriteValue,
\* StartNotify, StopNotify, Cancel, the advertisement's Release or an agent
\* request, that resume a blocked request, or that deliver a successful
\* registration leave the loop as it was
C12_OnlyRejectionOrReleaseStopsLoop ==
    /\ [][(RejectedNow("advertisement") \/ RejectedNow("application"))
              => mainloop' = "quit"]_vars
    /\ [][(mainloop = "running" /\ mainloop' # "running") =>
            /\ mainloop' = "quit"
            /\ \/ RejectedNow("advertisement")
               \/ RejectedNow("application")
               \/ Next_call("Release") /\ exit_on_release]_vars
    /\ [][(\/ \E m \in OtherMethods : Next_call(m)
           \/ /\ reply'.op \in {"StartNotify", "StopNotify"}
              /\ reply'.op # reply.op \/ reply'.target # reply.target
           \/ waiting # NotWaiting /\ waiting' = NotWaiting
           \/ \E g \in {"advertisement", "application"} :
                 host'[g] = "registered" /\ host[g] # "registered")
              => mainloop' = mainloop]_vars

\* The application's rejection ended a loop that the advertisement's
\* registration and a served Cancel had left running
C12_Witness ==
    /\ mainloop = "quit"
    /\ host.application = "rejected"
    /\ host.advertisement = "registered"
    /\ reply.op = "Cancel"

\* C13: the flag is set at the start; a step that serves Release quits the
\* loop exactly when the flag is set and leaves it running otherwise; and a
\* step that changes the flag serves no call and resumes no handler
C13_ReleaseQuitsIffFlagSet ==
    /\ exit_on_release = TRUE
    /\ [][Next_call("Release") =>
            /\ reply'.op = "Release" /\ reply'.err = "ok"
            /\ (mainloop' = "quit") <=> exit_on_release
            /\ (mainloop' = "running") <=> ~exit_on_release]_vars
    /\ [][exit_on_release' # exit_on_release =>
            inbox' = inbox /\ waiting' = waiting /\ reply' = reply]_vars

\* Release was served after set_exit_on_release(False): the loop still runs
C13_Witness == reply.op = "Release" /\ ~exit_on_release /\ mainloop = "running"

----------------------------------------------------------------------------
(* Properties of the values read and written, checked under Spec *)

IsUserDescription(svcs, path) ==
    \E r \in DescRefs(svcs) :
        /\ Obj(svcs, r).path = path
        /\ Obj(svcs, r).cls = "CharacteristicUserDescriptionDescriptor"

IsChrcPath(svcs, path) == \E r \in ChrcRefs(svcs) : Obj(svcs, r).path = path

\* What ReadValue on the entity at ref answers in the tree svcs
ReadOf(svcs, ref) ==
    <<ReadValue(Obj(svcs, ref)).err, ReadValue(Obj(svcs, ref)).result>>

\* C16: a step that serves WriteValue on a user-description descriptor
\* succeeds exactly when the owning characteristic's flags contain
\* "writable-auxiliaries" and fails with NotPermitted otherwise; after a
\* success ReadValue answers the value written, after the failure it answers
\* what it answered before the write
C16_UserDescriptionWrite ==
    [][reply'.op = "WriteValue" =>
        \A ref \in DescRefs(services) :
            (/\ Obj(services, ref).path = reply'.target
             /\ Obj(services, ref).cls = "CharacteristicUserDescriptionDescriptor") =>
                /\ Obj(services', ref).writable
                       = InList("writable-auxiliaries", Owner(services, ref).flags)
                /\ IF InList("writable-auxiliaries", Owner(services, ref).flags)
                   THEN /\ reply'.err = "ok"
                        /\ ReadOf(services', ref) = <<"ok", reply'.arg>>
                   ELSE /\ reply'.err = "NotPermitted"
                        /\ ReadOf(services', ref) = ReadOf(services, ref)]_vars

\* A written description replaced the constructed one
C16_Witness ==
    /\ reply.op = "WriteValue"
    /\ IsUserDescription(services, reply.target)
    /\ reply.err = "ok"
    /\ ReadOf(services, EntityAt(services, reply.target)) = <<"ok", reply.arg>>
    /\ reply.arg # CUD_InitialValue

\* C17: every characteristic reads empty at the start; a step that serves
\* WriteValue on a characteristic succeeds whatever the value, makes that
\* characteristic read the value written and leaves what every other
\* characteristic and descriptor reads as it was; a write to a descriptor and
\* every other step leave what each characteristic reads as it was; and
\* ReadValue on a characteristic never fails and answers what it reads
C17_CharacteristicValue ==
    /\ \A r \in ChrcRefs(services) : ReadOf(services, r) = <<"ok", "">>
    /\ [][/\ services' # services =>
                \A r \in ChrcRefs(services) \cup DescRefs(services) :
                    (reply'.op = "WriteValue" /\ reply'.target = Obj(services, r).path)
                    \/ ReadOf(services', r) = ReadOf(services, r)
          /\ reply'.op = "WriteValue" =>
                \A r \in ChrcRefs(services) :
                    reply'.target = Obj(services, r).path =>
                        /\ reply'.err = "ok"
                        /\ ReadOf(services', r) = <<"ok", reply'.arg>>
          /\ reply'.op = "ReadValue" =>
                \A r \in ChrcRefs(services) :
                    reply'.target = Obj(services, r).path =>
                        /\ reply'.err = "ok"
                        /\ <<reply'.err, reply'.result>> = ReadOf(services, r)]_vars

\* The encrypt characteristic read back a written value while the plain one,
\* never written, reads empty
C17_Witness ==
    /\ reply.op = "ReadValue"
    /\ IsChrcPath(services, reply.target)
    /\ Obj(services, EntityAt(services, reply.target)).cls = "TestEncryptCharacteristic"
    /\ reply.result # ""
    /\ \E r \in ChrcRefs(services) : ReadOf(services, r) = <<"ok", "">>

----------------------------------------------------------------------------
(* Properties of the snapshot's order and references, checked under Spec *)

\* ref a comes before ref b in construction order: services as added, a
\* service before its characteristics, these as added, a characteristic
\* before its descriptors, these as added
Before(a, b) ==
    \/ a.s < b.s
    \/ a.s = b.s /\ a.c < b.c
    \/ a.s = b.s /\ a.c = b.c /\ a.d < b.d

\* The position of path in the sequence paths
PositionIn(paths, path) == CHOOSE i \in 1..Len(paths) : paths[i] = path

\* C19: the response of GetManagedObjects lists each entity's path once, and
\* one entity's path before another's exactly when the one was added before
\* the other: services in order, each followed by its characteristics in
\* order, each followed by its descriptors in order
C19_SnapshotInInsertionOrder ==
    LET paths == GetManagedObjects_paths(services)
    IN  /\ Len(paths) = Cardinality(EntityRefs(services))
        /\ \A r \in EntityRefs(services) : InList(Obj(services, r).path, paths)
        /\ \A a, b \in EntityRefs(services) :
              Before(a, b) <=>
                  PositionIn(paths, Obj(services, a).path)
                      < PositionIn(paths, Obj(services, b).path)

\* The snapshot was answered after writes, its ten paths in order
C19_Witness ==
    /\ reply.op = "GetManagedObjects"
    /\ Len(GetManagedObjects_paths(services)) = 10
    /\ \E r \in DescRefs(services) :
          /\ Obj(services, r).cls = "CharacteristicUserDescriptionDescriptor"
          /\ Obj(services, r).value = ""

\* The entries of the snapshot resp under interface that list path as a child
ParentsOf(resp, interface, children, path) ==
    {<<p, i>> \in (DOMAIN resp) \X (1..Cardinality(DOMAIN resp)) :
        /\ interface \in DOMAIN resp[p]
        /\ i \in DOMAIN resp[p][interface][children]
        /\ resp[p][interface][children][i] = path}

\* The parent and child references of the snapshot resp agree
ReferencesAgree(resp) ==
    \A p \in DOMAIN resp :
        /\ GATT_SERVICE_IFACE \in DOMAIN resp[p] =>
              \A i \in DOMAIN resp[p][GATT_SERVICE_IFACE].Characteristics :
                  LET child == resp[p][GATT_SERVICE_IFACE].Characteristics[i]
                  IN  /\ child \in DOMAIN resp
                      /\ GATT_CHRC_IFACE \in DOMAIN resp[child]
                      /\ resp[child][GATT_CHRC_IFACE].Service = p
        /\ GATT_CHRC_IFACE \in DOMAIN resp[p] =>
              /\ \A i \in DOMAIN resp[p][GATT_CHRC_IFACE].Descriptors :
                    LET child == resp[p][GATT_CHRC_IFACE].Descriptors[i]
                    IN  /\ child \in DOMAIN resp
                        /\ GATT_DESC_IFACE \in DOMAIN resp[child]
                        /\ resp[child][GATT_DESC_IFACE].Characteristic = p
              /\ Cardinality(ParentsOf(resp, GATT_SERVICE_IFACE, "Characteristics", p)) = 1
        /\ GATT_DESC_IFACE \in DOMAIN resp[p] =>
              Cardinality(ParentsOf(resp, GATT_CHRC_IFACE, "Descriptors", p)) = 1

\* C20: in every reachable state each path a service lists is a
\* characteristic entry naming that service, each path a characteristic lists
\* is a descriptor entry naming that characteristic, and every characteristic
\* and descriptor entry is listed by exactly one parent, once
C20_ParentChildConsistent ==
    /\ ReferencesAgree(Application_GetManagedObjects(services))
    /\ reply.op = "GetManagedObjects" => ReferencesAgree(reply.result)

\* The snapshot was answered with its three characteristics and six
\* descriptors, after a descriptor was written
C20_Witness ==
    /\ reply.op = "GetManagedObjects"
    /\ Cardinality({p \in DOMAIN reply.result :
                       GATT_DESC_IFACE \in DOMAIN reply.result[p]}) = 6
    /\ Cardinality({p \in DOMAIN reply.result :
                       GATT_CHRC_IFACE \in DOMAIN reply.result[p]}) = 3
    /\ \E r \in DescRefs(services) :
          /\ Obj(services, r).cls = "CharacteristicUserDescriptionDescriptor"
          /\ Obj(services, r).value # CUD_InitialValue

----------------------------------------------------------------------------
(* Properties of the Advertisement, checked under SpecAd *)

\* The property each optional attribute is emitted as
PropertyOf ==
    [service_uuids     |-> "ServiceUUIDs",
     solicit_uuids     |-> "SolicitUUIDs",
     manufacturer_data |-> "ManufacturerData",
     service_data      |-> "ServiceData",
     local_name        |-> "LocalName",
     include_tx_power  |-> "IncludeTxPower",
     data              |-> "Data"]

EmittedKeys == DOMAIN Advertisement_get_properties(ad)[LE_ADVERTISEMENT_IFACE]

\* C14: after any sequence of mutators the emitted mapping's keys are "Type"
\* and the property of each optional attribute that was assigned, no other;
\* with only the local name and include_tx_power assigned they are Type,
\* LocalName and IncludeTxPower
C14_KeysAreTypeAndAssigned ==
    /\ DOMAIN Advertisement_get_properties(ad) = {LE_ADVERTISEMENT_IFACE}
    /\ EmittedKeys = {"Type"} \cup {PropertyOf[a] : a \in assigned}
    /\ assigned = {"local_name", "include_tx_power"} =>
           EmittedKeys = {"Type", "LocalName", "IncludeTxPower"}

\* Only the local name and include_tx_power were assigned, to "" and False
C14_Witness ==
    /\ assigned = {"local_name", "include_tx_power"}
    /\ ad.local_name = Just("")
    /\ ad.include_tx_power = Just(FALSE)
    /\ EmittedKeys = {"Type", "LocalName", "IncludeTxPower"}

\* after is before with at most the attribute changed
OnlyChanged(before, after, attribute) ==
    /\ DOMAIN after = DOMAIN before
    /\ \A a \in DOMAIN before \ {attribute} : after[a] = before[a]

\* after holds value under key and every other entry of before unchanged
DictKept(before, after, key, value) ==
    /\ after # Nothing
    /\ DOMAIN after[1] = DOMAIN Held(before, EmptyDict) \cup {key}
    /\ after[1][key] = value
    /\ \A k \in DOMAIN Held(before, EmptyDict) \ {key} :
          after[1][k] = Held(before, EmptyDict)[k]

\* C15: in every reachable state of an Advertisement, each mutator keeps
\* what was added before: add_service_data, add_manufacturer_data and
\* add_data keep every entry under another key, add_service_uuid and
\* add_solicit_uuid append to the list built so far, and each mutator leaves
\* every other attribute as it was
C15_MutatorsKeepEarlierEntries ==
    /\ \A uuid \in {"9999", "180D"}, data \in Payloads :
          LET after == add_service_data(ad, uuid, data)
          IN  /\ DictKept(ad.service_data, after.service_data, uuid, data)
              /\ OnlyChanged(ad, after, "service_data")
    /\ \A manuf_code \in {65535, 76}, data \in Payloads :
          LET after == add_manufacturer_data(ad, manuf_code, data)
          IN  /\ DictKept(ad.manufacturer_data, after.manufacturer_data, manuf_code, data)
              /\ OnlyChanged(ad, after, "manufacturer_data")
    /\ \A ad_type \in {38, 1}, data \in Payloads :
          LET after == add_data(ad, ad_type, data)
          IN  /\ DictKept(ad.data, after.data, ad_type, data)
              /\ OnlyChanged(ad, after, "data")
    /\ \A uuid \in {"180D", "180F", "180A"} :
          /\ LET after == add_service_uuid(ad, uuid)
             IN  /\ after.service_uuids = Just(Held(ad.service_uuids, <<>>) \o <<uuid>>)
                 /\ OnlyChanged(ad, after, "service_uuids")
          /\ LET after == add_solicit_uuid(ad, uuid)
             IN  /\ after.solicit_uuids = Just(Held(ad.solicit_uuids, <<>>) \o <<uuid>>)
                 /\ OnlyChanged(ad, after, "solicit_uuids")
    /\ \A name \in {"Vivaldi", ""} :
          OnlyChanged(ad, add_local_name(ad, name), "local_name")

\* Service data was added under two keys with different payloads, and both
\* UUID lists hold two entries
C15_Witness ==
    /\ ad.service_data = Just(("9999" :> <<0, 1, 2, 3, 4>>) @@ ("180D" :> <<>>))
    /\ ad.manufacturer_data # Nothing
    /\ DOMAIN ad.manufacturer_data[1] = {65535, 76}
    /\ ad.data # Nothing
    /\ DOMAIN ad.data[1] = {38, 1}
    /\ ad.service_uuids = Just(<<"180F", "180D">>)
    /\ ad.solicit_uuids = Just(<<"180A", "180A">>)

----------------------------------------------------------------------------
(* Properties of main(), checked under SpecMain *)

\* The tree as Application.__init__ populates it: one service of three
\* characteristics with two descriptors each
TreeComplete(svcs) ==
    /\ Len(svcs) = 1
    /\ Len(svcs[1].characteristics) = 3
    /\ \A i \in 1..3 : Len(svcs[1].characteristics[i].descriptors) = 2
    /\ Cardinality({Obj(svcs, r).path : r \in EntityRefs(svcs)}) = 10

\* C18: from the request to register the application on, the tree is
\* complete and no step adds, removes or renames an entity, so every
\* GetManagedObjects answers those ten entities; and when no adapter was
\* found nothing was asked of the host stack, nothing constructed and the
\* loop neither created nor run
C18_TreeCompleteBeforeRegistration ==
    /\ [](host.application # "none" => TreeComplete(services))
    /\ [][host.application # "none" =>
            /\ EntityRefs(services') = EntityRefs(services)
            /\ \A r \in EntityRefs(services) :
                  Obj(services', r).path = Obj(services, r).path]_vars
    /\ [](reply.op = "GetManagedObjects" =>
            /\ host.application # "none"
            /\ DOMAIN reply.result = {Obj(services, r).path : r \in EntityRefs(services)}
            /\ Cardinality(DOMAIN reply.result) = 10)
    /\ [](pc = "return" =>
            /\ host.agent = "none" /\ ~host.default_agent /\ ~host.powered
            /\ host.advertisement = "none" /\ host.application = "none"
            /\ services = <<>> /\ ad = NoObject
            /\ mainloop = "none")
    /\ [][pc = "return" => pc' = "return" /\ mainloop' = "none"]_vars

\* The registered application answered GetManagedObjects after a write
C18_Witness ==
    /\ reply.op = "GetManagedObjects"
    /\ host.application = "registered"
    /\ TreeComplete(services)
    /\ SomeValueWritten

----------------------------------------------------------------------------
(* The snapshot under the read/write protocol, checked under Spec *)

\* What GetAll with the entity's own interface answers for ref in svcs
GetAllOf(svcs, ref) ==
    GetAll(Obj(svcs, ref), InterfaceOf(Obj(svcs, ref))).result

\* C21: in every reachable state, whatever ReadValue and WriteValue calls
\* were served, failing or not, GetManagedObjects answers the mapping it
\* answered right after construction and GetAll answers for every entity
\* what it answered then; and no step changes an entity's path, UUID, flags
\* or list of children
C21_SnapshotUnaffectedByValues ==
    /\ [](/\ Application_GetManagedObjects(services)
                = Application_GetManagedObjects(Application_init)
          /\ EntityRefs(services) = EntityRefs(Application_init)
          /\ \A r \in EntityRefs(Application_init) :
                GetAllOf(services, r) = GetAllOf(Application_init, r)
          /\ reply.op = "GetManagedObjects" =>
                reply.result = Application_GetManagedObjects(Application_init))
    /\ [][services' # services =>
            /\ reply'.op = "WriteValue"
            /\ \A r \in EntityRefs(services) :
                  /\ Obj(services', r).path = Obj(services, r).path
                  /\ Obj(services', r).uuid = Obj(services, r).uuid
                  /\ r.c # 0 => Obj(services', r).flags = Obj(services, r).flags
                  /\ r.c = 0 => get_characteristic_paths(Obj(services', r))
                                    = get_characteristic_paths(Obj(services, r))
                  /\ (r.c # 0 /\ r.d = 0) =>
                        get_descriptor_paths(Obj(services', r))
                            = get_descriptor_paths(Obj(services, r))]_vars

\* The snapshot was answered as at construction after all three
\* characteristics and a description were written
C21_Witness ==
    /\ reply.op = "GetManagedObjects"
    /\ reply.result = Application_GetManagedObjects(Application_init)
    /\ \A r \in ChrcRefs(services) : Obj(services, r).value # ""
    /\ \E r \in DescRefs(services) :
          /\ Obj(services, r).cls = "CharacteristicUserDescriptionDescriptor"
          /\ Obj(services, r).value # CUD_InitialValue

====
